---- MODULE Spec2Model ----
(***************************************************************************)
(* Fire-SQL: the statement pipeline runQuery (the regex statement parser,  *)
(* the literal coercion of executeSelect and the shaping of the Result)    *)
(* over the Firestore operations of services/firebaseService.ts.           *)
(*                                                                         *)
(* A JavaScript string is a TLA+ string; its i-th character (1-based) is   *)
(* SubSeq(s, i, i).  A regular expression is the sequence of its nodes and *)
(* is matched with the backtracking priority of the JavaScript engine.     *)
(*                                                                         *)
(* Spec is one call of runQuery. AppSpec is a session of App.tsx and       *)
(* components/ResultsTable.tsx: the query editor, paging with the stack of *)
(* cursors, the edit widget of a cell and the optimistic reconciler, with  *)
(* the promises of the store settling in any order.                        *)
(***************************************************************************)
EXTENDS Integers, Sequences, FiniteSets, TLC

\* ------------------------------------------------------------------------
\* Bounds of the model
\* ------------------------------------------------------------------------
MaxDocs == 2

\* ------------------------------------------------------------------------
\* Strings
\* ------------------------------------------------------------------------
CharAt(s, i) == SubSeq(s, i, i)

Lowers == "abcdefghijklmnopqrstuvwxyz"
Uppers == "ABCDEFGHIJKLMNOPQRSTUVWXYZ"

LowerChars ==
    {"a", "b", "c", "d", "e", "f", "g", "h", "i", "j", "k", "l", "m",
     "n", "o", "p", "q", "r", "s", "t", "u", "v", "w", "x", "y", "z"}
UpperChars ==
    {"A", "B", "C", "D", "E", "F", "G", "H", "I", "J", "K", "L", "M",
     "N", "O", "P", "Q", "R", "S", "T", "U", "V", "W", "X", "Y", "Z"}
DigitChars == {"0", "1", "2", "3", "4", "5", "6", "7", "8", "9"}

\* \s of a JavaScript regular expression, and the characters trim() removes
WhiteSpace == {" ", "\t", "\n", "\r"}

\* the characters the regular expression dot does not match
LineTerminators == {"\n", "\r"}

IndexIn(s, c) == CHOOSE i \in 1..Len(s) : CharAt(s, i) = c

\* the regular expression flag i: a letter stands for both of its cases
CaseFold(c) ==
    IF c \in LowerChars THEN {c, CharAt(Uppers, IndexIn(Lowers, c))}
    ELSE IF c \in UpperChars THEN {c, CharAt(Lowers, IndexIn(Uppers, c))}
    ELSE {c}

RECURSIVE TrimStart(_)
TrimStart(s) ==
    IF Len(s) > 0 /\ CharAt(s, 1) \in WhiteSpace
    THEN TrimStart(SubSeq(s, 2, Len(s)))
    ELSE s

RECURSIVE TrimEnd(_)
TrimEnd(s) ==
    IF Len(s) > 0 /\ CharAt(s, Len(s)) \in WhiteSpace
    THEN TrimEnd(SubSeq(s, 1, Len(s) - 1))
    ELSE s

\* String.prototype.trim
Trim(s) == TrimEnd(TrimStart(s))

StartsWith(s, c) == Len(s) > 0 /\ CharAt(s, 1) = c
EndsWith(s, c) == Len(s) > 0 /\ CharAt(s, Len(s)) = c

\* s.slice(1, -1)
Slice1(s) == SubSeq(s, 2, Len(s) - 1)

\* ------------------------------------------------------------------------
\* Regular expressions
\* ------------------------------------------------------------------------
\* nodes: a character class, a greedy repetition of a class, a capturing
\* group, an alternation, a greedy optional group, and the end anchor
Cls(set) == [k |-> "cls", neg |-> FALSE, set |-> set]
Dot == [k |-> "cls", neg |-> TRUE, set |-> LineTerminators]
Rep(min, c) == [k |-> "rep", min |-> min, cls |-> c]
Grp(n, body) == [k |-> "grp", n |-> n, body |-> body]
Alt(opts) == [k |-> "alt", opts |-> opts]
Opt(body) == [k |-> "opt", body |-> body]
Eol == [k |-> "eol"]

\* a literal word under the flag i
Lit(w) == [i \in 1..Len(w) |-> Cls(CaseFold(CharAt(w, i)))]

\* a literal word, case kept
Exact(w) == [i \in 1..Len(w) |-> Cls({CharAt(w, i)})]

InCls(c, ch) == IF c.neg THEN ch \notin c.set ELSE ch \in c.set

\* the number of characters of s from offset i on that are in the class
RECURSIVE Run(_, _, _)
Run(c, s, i) ==
    IF i < Len(s) /\ InCls(c, CharAt(s, i + 1)) THEN 1 + Run(c, s, i + 1) ELSE 0

\* a capture that did not take part in the match is undefined
NoCapture == [def |-> FALSE, s |-> ""]
NoCaptures == [n \in 1..4 |-> NoCapture]

RECURSIVE MatchSeq(_, _, _, _)
RECURSIVE MatchNode(_, _, _, _)
RECURSIVE MatchAlt(_, _, _, _)
RECURSIVE Continue(_, _, _)

\* every way the nodes match s from offset i on, in the order in which the
\* backtracking engine tries them; each is the offset reached and the captures
MatchSeq(nodes, s, i, caps) ==
    IF nodes = <<>>
    THEN << [pos |-> i, caps |-> caps] >>
    ELSE Continue(MatchNode(Head(nodes), s, i, caps), Tail(nodes), s)

Continue(heads, rest, s) ==
    IF heads = <<>>
    THEN <<>>
    ELSE MatchSeq(rest, s, Head(heads).pos, Head(heads).caps)
             \o Continue(Tail(heads), rest, s)

MatchAlt(opts, s, i, caps) ==
    IF opts = <<>>
    THEN <<>>
    ELSE MatchSeq(Head(opts), s, i, caps) \o MatchAlt(Tail(opts), s, i, caps)

MatchNode(node, s, i, caps) ==
    CASE node.k = "cls" ->
            IF i < Len(s) /\ InCls(node, CharAt(s, i + 1))
            THEN << [pos |-> i + 1, caps |-> caps] >>
            ELSE <<>>
      [] node.k = "rep" ->
            \* greedy: the longest run first
            LET n == Run(node.cls, s, i)
            IN  IF n < node.min
                THEN <<>>
                ELSE [j \in 1..(n - node.min + 1) |->
                         [pos |-> i + n - (j - 1), caps |-> caps]]
      [] node.k = "grp" ->
            LET inner == MatchSeq(node.body, s, i, caps)
            IN  [j \in 1..Len(inner) |->
                    [pos |-> inner[j].pos,
                     caps |-> [inner[j].caps EXCEPT ![node.n] =
                                  [def |-> TRUE,
                                   s |-> SubSeq(s, i + 1, inner[j].pos)]]]]
      [] node.k = "alt" -> MatchAlt(node.opts, s, i, caps)
      [] node.k = "opt" ->
            \* greedy: with the group first, then without it
            MatchSeq(node.body, s, i, caps) \o << [pos |-> i, caps |-> caps] >>
      [] node.k = "eol" ->
            IF i = Len(s) THEN << [pos |-> i, caps |-> caps] >> ELSE <<>>

\* s.match(re) for a regular expression that starts with ^ : the first match
\* from offset 0, or null
NoMatch == [matched |-> FALSE, caps |-> NoCaptures]

ExecAnchored(re, s) ==
    LET all == MatchSeq(re, s, 0, NoCaptures)
    IN  IF all = <<>>
        THEN NoMatch
        ELSE [matched |-> TRUE, caps |-> all[1].caps]

\* the capture, or the empty string for undefined: both are falsy
CapStr(m, n) == IF m.caps[n].def THEN m.caps[n].s ELSE ""

Ws1 == Rep(1, Cls(WhiteSpace))
Ws0 == Rep(0, Cls(WhiteSpace))

\* [a-zA-Z0-9_/-]+
CollectionChars == LowerChars \cup UpperChars \cup DigitChars \cup {"_", "/", "-"}

\* [a-zA-Z0-9_.]+
FieldChars == LowerChars \cup UpperChars \cup DigitChars \cup {"_", "."}

QuoteChars == {"'", "\""}

\* /^SELECT\s+\*\s+FROM\s+([a-zA-Z0-9_/-]+)
\*   (?:\s+WHERE\s+([a-zA-Z0-9_.]+)\s*(=|!=|>|<|>=|<=)\s*(.+))?$/i
selectRegex ==
    Lit("SELECT") \o <<Ws1, Cls({"*"}), Ws1>> \o Lit("FROM") \o
    <<Ws1, Grp(1, <<Rep(1, Cls(CollectionChars))>>),
      Opt(<<Ws1>> \o Lit("WHERE") \o
          <<Ws1, Grp(2, <<Rep(1, Cls(FieldChars))>>), Ws0,
            Grp(3, <<Alt(<<Exact("="), Exact("!="), Exact(">"), Exact("<"),
                          Exact(">="), Exact("<=")>>)>>),
            Ws0, Grp(4, <<Rep(1, Dot)>>)>>),
      Eol>>

\* /^INSERT\s+INTO\s+([a-zA-Z0-9_/-]+)\s+JSON\s+(.+)$/i
insertRegex ==
    Lit("INSERT") \o <<Ws1>> \o Lit("INTO") \o
    <<Ws1, Grp(1, <<Rep(1, Cls(CollectionChars))>>), Ws1>> \o Lit("JSON") \o
    <<Ws1, Grp(2, <<Rep(1, Dot)>>), Eol>>

\* /^UPDATE\s+([a-zA-Z0-9_/-]+)\s+SET\s+JSON\s+(.+)\s+WHERE\s+id\s*=\s*(.+)$/i
updateRegex ==
    Lit("UPDATE") \o <<Ws1, Grp(1, <<Rep(1, Cls(CollectionChars))>>), Ws1>> \o
    Lit("SET") \o <<Ws1>> \o Lit("JSON") \o
    <<Ws1, Grp(2, <<Rep(1, Dot)>>), Ws1>> \o Lit("WHERE") \o <<Ws1>> \o
    Lit("id") \o <<Ws0, Cls({"="}), Ws0, Grp(3, <<Rep(1, Dot)>>), Eol>>

\* /^DELETE\s+FROM\s+([a-zA-Z0-9_/-]+)\s+WHERE\s+id\s*=\s*(.+)$/i
deleteRegex ==
    Lit("DELETE") \o <<Ws1>> \o Lit("FROM") \o
    <<Ws1, Grp(1, <<Rep(1, Cls(CollectionChars))>>), Ws1>> \o Lit("WHERE") \o
    <<Ws1>> \o Lit("id") \o
    <<Ws0, Cls({"="}), Ws0, Grp(2, <<Rep(1, Dot)>>), Eol>>

\* removeQuotes with a pattern that knows the single quote only
removeSingleQuotes(str) ==
    LET lead == IF Len(str) > 0 /\ CharAt(str, 1) = "'" THEN 1 ELSE 0
        trail == IF Len(str) > lead /\ CharAt(str, Len(str)) = "'" THEN 1 ELSE 0
    IN  SubSeq(str, 1 + lead, Len(str) - trail)

\* str.replace(/^['"]|['"]$/g, ''): the matches are found from left to right
\* in str itself, so the trailing quote is a character other than the first
removeQuotes(str) ==
    LET lead == IF Len(str) > 0 /\ CharAt(str, 1) \in QuoteChars THEN 1 ELSE 0
        trail == IF Len(str) > lead /\ CharAt(str, Len(str)) \in QuoteChars
                 THEN 1 ELSE 0
    IN  SubSeq(str, 1 + lead, Len(str) - trail)

\* ------------------------------------------------------------------------
\* JSON.parse
\* ------------------------------------------------------------------------
JsonWs == {" ", "\t", "\n", "\r"}
HexChars ==
    DigitChars \cup {"a", "b", "c", "d", "e", "f", "A", "B", "C", "D", "E", "F"}
EscapeChars == {"\"", "\\", "/", "b", "f", "n", "r", "t"}
ControlChars == {"\t", "\n", "\r"}

JsonFail == [ok |-> FALSE, pos |-> 0, val |-> [kind |-> "none", text |-> "", items |-> <<>>]]
JsonOk(pos, kind, text, items) ==
    [ok |-> TRUE, pos |-> pos, val |-> [kind |-> kind, text |-> text, items |-> items]]

RECURSIVE SkipWs(_, _)
SkipWs(s, i) ==
    IF i < Len(s) /\ CharAt(s, i + 1) \in JsonWs THEN SkipWs(s, i + 1) ELSE i

\* the offset just after the closing quote of the string whose opening quote
\* ends at offset i, or -1
RECURSIVE StringEnd(_, _)
StringEnd(s, i) ==
    IF i >= Len(s) THEN -1
    ELSE LET c == CharAt(s, i + 1)
         IN  IF c = "\"" THEN i + 1
             ELSE IF c \in ControlChars THEN -1
             ELSE IF c # "\\" THEN StringEnd(s, i + 1)
             ELSE IF i + 1 >= Len(s) THEN -1
             ELSE IF CharAt(s, i + 2) \in EscapeChars THEN StringEnd(s, i + 2)
             ELSE IF CharAt(s, i + 2) = "u" /\ i + 6 <= Len(s)
                     /\ \A j \in 3..6 : CharAt(s, i + j) \in HexChars
                  THEN StringEnd(s, i + 6)
             ELSE -1

DigitRun(s, i) == Run(Cls(DigitChars), s, i)

\* the parts of a number, each from the offset the part before it reached:
\* -? (0 | [1-9][0-9]*) (. [0-9]+)? ([eE] [+-]? [0-9]+)?
SignEnd(s, i) == IF i < Len(s) /\ CharAt(s, i + 1) = "-" THEN i + 1 ELSE i

IntegerEnd(s, a) ==
    IF DigitRun(s, a) = 0 THEN -1
    ELSE IF CharAt(s, a + 1) = "0" THEN a + 1
    ELSE a + DigitRun(s, a)

DigitsEnd(s, g) == IF DigitRun(s, g) = 0 THEN -1 ELSE g + DigitRun(s, g)

FractionEnd(s, b) ==
    IF b >= 0 /\ b < Len(s) /\ CharAt(s, b + 1) = "."
    THEN DigitsEnd(s, b + 1)
    ELSE b

ExponentEnd(s, f) ==
    IF f >= 0 /\ f < Len(s) /\ CharAt(s, f + 1) \in {"e", "E"}
    THEN IF f + 1 < Len(s) /\ CharAt(s, f + 2) \in {"+", "-"}
         THEN DigitsEnd(s, f + 2)
         ELSE DigitsEnd(s, f + 1)
    ELSE f

\* the offset just after the number that starts at offset i, or -1
NumberEnd(s, i) == ExponentEnd(s, FractionEnd(s, IntegerEnd(s, SignEnd(s, i))))

HasWordAt(s, i, w) == i + Len(w) <= Len(s) /\ SubSeq(s, i + 1, i + Len(w)) = w

RECURSIVE ParseValue(_, _)
RECURSIVE ParseMembers(_, _, _)
RECURSIVE ParseElements(_, _, _)
RECURSIVE AfterMember(_, _, _)
RECURSIVE AfterElement(_, _, _)

StringValue(s, i, e) ==
    IF e < 0 THEN JsonFail ELSE JsonOk(e, "string", SubSeq(s, i + 2, e - 1), <<>>)

NumberValue(s, i, e) ==
    IF e < 0 THEN JsonFail ELSE JsonOk(e, "number", SubSeq(s, i + 1, e), <<>>)

IsCharAt(s, j, c) == j >= 0 /\ j < Len(s) /\ CharAt(s, j + 1) = c

\* the JSON value that starts at offset i (white space skipped by the caller)
ParseValue(s, i) ==
    IF i >= Len(s) THEN JsonFail
    ELSE CASE IsCharAt(s, i, "{") ->
                 IF IsCharAt(s, SkipWs(s, i + 1), "}")
                 THEN JsonOk(SkipWs(s, i + 1) + 1, "object", "", <<>>)
                 ELSE ParseMembers(s, SkipWs(s, i + 1), <<>>)
           [] IsCharAt(s, i, "[") ->
                 IF IsCharAt(s, SkipWs(s, i + 1), "]")
                 THEN JsonOk(SkipWs(s, i + 1) + 1, "array", "", <<>>)
                 ELSE ParseElements(s, SkipWs(s, i + 1), <<>>)
           [] IsCharAt(s, i, "\"") -> StringValue(s, i, StringEnd(s, i + 1))
           [] IsCharAt(s, i, "-") \/ CharAt(s, i + 1) \in DigitChars ->
                 NumberValue(s, i, NumberEnd(s, i))
           [] HasWordAt(s, i, "true") -> JsonOk(i + 4, "boolean", "true", <<>>)
           [] HasWordAt(s, i, "false") -> JsonOk(i + 5, "boolean", "false", <<>>)
           [] HasWordAt(s, i, "null") -> JsonOk(i + 4, "null", "null", <<>>)
           [] OTHER -> JsonFail

\* after a member or an element that ended at offset j: the closing
\* character, or a comma and the next one
AfterMember(s, j, members) ==
    IF IsCharAt(s, j, "}") THEN JsonOk(j + 1, "object", "", members)
    ELSE IF IsCharAt(s, j, ",") THEN ParseMembers(s, SkipWs(s, j + 1), members)
    ELSE JsonFail

AfterElement(s, j, elements) ==
    IF IsCharAt(s, j, "]") THEN JsonOk(j + 1, "array", "", elements)
    ELSE IF IsCharAt(s, j, ",") THEN ParseElements(s, SkipWs(s, j + 1), elements)
    ELSE JsonFail

MemberValue(s, key, v, acc) ==
    IF ~v.ok THEN JsonFail
    ELSE AfterMember(s, SkipWs(s, v.pos), Append(acc, [key |-> key, val |-> v.val]))

\* the key that starts at offset i ends at offset e, its colon is at offset c
MemberKey(s, i, e, c, acc) ==
    IF e < 0 \/ ~IsCharAt(s, c, ":") THEN JsonFail
    ELSE MemberValue(s, SubSeq(s, i + 2, e - 1), ParseValue(s, SkipWs(s, c + 1)), acc)

KeyEnd(s, i, e, acc) == MemberKey(s, i, e, IF e < 0 THEN -1 ELSE SkipWs(s, e), acc)

\* the members of an object from offset i (at a key) on, up to its brace
ParseMembers(s, i, acc) ==
    IF ~IsCharAt(s, i, "\"") THEN JsonFail
    ELSE KeyEnd(s, i, StringEnd(s, i + 1), acc)

ElementValue(s, v, acc) ==
    IF ~v.ok THEN JsonFail
    ELSE AfterElement(s, SkipWs(s, v.pos), Append(acc, v.val))

\* the elements of an array from offset i on, up to its bracket
ParseElements(s, i, acc) == ElementValue(s, ParseValue(s, i), acc)

WholeText(text, v) ==
    IF v.ok /\ SkipWs(text, v.pos) = Len(text) THEN v ELSE JsonFail

\* JSON.parse(text): one value between optional white space; ok is FALSE where
\* JSON.parse throws a SyntaxError
JsonParse(text) == WholeText(text, ParseValue(text, SkipWs(text, 0)))

\* ------------------------------------------------------------------------
\* JavaScript values and objects
\* ------------------------------------------------------------------------
\* a value of the WHERE clause: a string, a number or a boolean
StrVal(s) == [t |-> "string", s |-> s, n |-> 0, b |-> FALSE]
NumVal(n) == [t |-> "number", s |-> "", n |-> n, b |-> FALSE]
BoolVal(b) == [t |-> "boolean", s |-> "", n |-> 0, b |-> b]

DigitValue(c) == IndexIn("0123456789", c) - 1

RECURSIVE DigitsToNat(_)
DigitsToNat(s) ==
    IF s = "" THEN 0
    ELSE 10 * DigitsToNat(SubSeq(s, 1, Len(s) - 1)) + DigitValue(CharAt(s, Len(s)))

SignedValue(sign, body) ==
    IF body # "" /\ \A i \in 1..Len(body) : CharAt(body, i) \in DigitChars
    THEN [nan |-> FALSE,
          n |-> IF sign = "-" THEN 0 - DigitsToNat(body) ELSE DigitsToNat(body)]
    ELSE [nan |-> TRUE, n |-> 0]

TrimmedToNumber(s) ==
    IF s = "" THEN [nan |-> FALSE, n |-> 0]
    ELSE IF CharAt(s, 1) \in {"+", "-"}
    THEN SignedValue(CharAt(s, 1), SubSeq(s, 2, Len(s)))
    ELSE SignedValue("+", s)

\* Number(str) for the numeric literals of the model's tokens: white space
\* around is dropped, the empty string is 0, an optional sign and decimal
\* digits are their value, and every other text is NaN
StringToNumber(str) == TrimmedToNumber(Trim(str))

\* Number(val)
ToNumber(val) ==
    CASE val.t = "string" -> StringToNumber(val.s)
      [] val.t = "number" -> [nan |-> FALSE, n |-> val.n]
      [] val.t = "boolean" -> [nan |-> FALSE, n |-> IF val.b THEN 1 ELSE 0]

\* an object is the sequence of its entries in property order (the field
\* names of the model are not integer-like, so that is insertion order)
Entry(k, v) == [key |-> k, val |-> v]

ObjectKeys(obj) == [i \in 1..Len(obj) |-> obj[i].key]

HasKey(obj, k) == \E i \in 1..Len(obj) : obj[i].key = k

\* obj[k] = v: an own property keeps its place, a new one goes last
ObjectSet(obj, k, v) ==
    IF HasKey(obj, k)
    THEN [i \in 1..Len(obj) |-> IF obj[i].key = k THEN Entry(k, v) ELSE obj[i]]
    ELSE Append(obj, Entry(k, v))

\* { ...target, ...source }
RECURSIVE Spread(_, _)
Spread(target, source) ==
    IF source = <<>> THEN target
    ELSE Spread(ObjectSet(target, Head(source).key, Head(source).val), Tail(source))

\* array.filter(k => k !== x)
RECURSIVE Without(_, _)
Without(seq, x) ==
    IF seq = <<>> THEN <<>>
    ELSE IF Head(seq) = x THEN Without(Tail(seq), x)
    ELSE <<Head(seq)>> \o Without(Tail(seq), x)

\* ------------------------------------------------------------------------
\* services/firebaseService.ts: the synchronous part of each operation, up
\* to its first await
\* ------------------------------------------------------------------------
NoWhere == [def |-> FALSE, field |-> "", op |-> "", value |-> ""]
NoFilter == [def |-> FALSE, field |-> "", op |-> "", value |-> StrVal("")]
NoJson == JsonFail.val

\* an Error as the catch clause sees it
NoError == [thrown |-> FALSE, from |-> "none", message |-> ""]
Error(from, message) == [thrown |-> TRUE, from |-> from, message |-> message]

\* Map SQL operators to Firestore operators
opMap == [op \in {"=", "==", ">", "<", ">=", "<=", "!=", "array-contains"} |->
             IF op = "=" THEN "==" ELSE op]

\* if (val === 'true') val = true; if (val === 'false') val = false;
CoerceBoolean(val) ==
    IF val = StrVal("true") THEN BoolVal(TRUE)
    ELSE IF val = StrVal("false") THEN BoolVal(FALSE)
    ELSE val

\* if (!isNaN(Number(val)) && val !== '') val = Number(val);
NumberUnlessNaN(val, num) ==
    IF ~num.nan /\ val # StrVal("") THEN NumVal(num.n) ELSE val

CoerceNumber(val) == NumberUnlessNaN(val, ToNumber(val))

\* if (val.startsWith(q) && val.endsWith(q)) val = val.slice(1, -1);
StripQuote(val, q) ==
    IF StartsWith(val.s, q) /\ EndsWith(val.s, q) THEN StrVal(Slice1(val.s)) ELSE val

\* a value that is no longer a string has no startsWith: calling it is a
\* TypeError
CoerceQuotes(val) ==
    IF val.t # "string"
    THEN [err |-> Error("adapter", "val.startsWith is not a function"), val |-> val]
    ELSE [err |-> NoError, val |-> StripQuote(StripQuote(val, "'"), "\"")]

\* Basic type inference for the value (lines 64 to 70)
Coerce(token) == CoerceQuotes(CoerceNumber(CoerceBoolean(StrVal(token))))

\* what an operation has done when it suspends or throws: the error thrown,
\* or the Firestore call it awaits
Threw(err) == [err |-> err, sdk |-> <<>>, pc |-> "done"]
Awaits(pc, call) == [err |-> NoError, sdk |-> <<call>>, pc |-> pc]

SdkCall(fn, col, docId, filter, data) ==
    [fn |-> fn, col |-> col, docId |-> docId, filter |-> filter, data |-> data]

FilteredSelect(colName, whereClause, c) ==
    IF c.err.thrown THEN Threw(c.err)
    ELSE Awaits("getDocs",
                SdkCall("getDocs", colName, "",
                        [def |-> TRUE, field |-> whereClause.field,
                         op |-> opMap[whereClause.op], value |-> c.val],
                        NoJson))

executeSelect(connected, colName, whereClause) ==
    IF ~connected THEN Threw(Error("adapter", "Database not connected"))
    ELSE IF ~whereClause.def
    THEN Awaits("getDocs", SdkCall("getDocs", colName, "", NoFilter, NoJson))
    ELSE IF whereClause.op \notin DOMAIN opMap
    THEN Threw(Error("adapter", "Unsupported operator: " \o whereClause.op))
    ELSE FilteredSelect(colName, whereClause, Coerce(whereClause.value))

executeInsert(connected, colName, data) ==
    IF ~connected THEN Threw(Error("adapter", "Database not connected"))
    ELSE Awaits("addDoc", SdkCall("addDoc", colName, "", NoFilter, data))

executeUpdate(connected, colName, docId, data) ==
    IF ~connected THEN Threw(Error("adapter", "Database not connected"))
    ELSE Awaits("updateDoc", SdkCall("updateDoc", colName, docId, NoFilter, data))

executeDelete(connected, colName, docId) ==
    IF ~connected THEN Threw(Error("adapter", "Database not connected"))
    ELSE Awaits("deleteDoc", SdkCall("deleteDoc", colName, docId, NoFilter, NoJson))

\* snapshot.docs.map(d => ({ id: d.id, ...d.data() }))
DocToRow(d) == Spread(<<Entry("id", d.id)>>, d.data)

\* ------------------------------------------------------------------------
\* runQuery: the Result, and the synchronous part up to the first await
\* ------------------------------------------------------------------------
NoResult ==
    [type |-> "none", columns |-> <<>>, rows |-> <<>>, message |-> "",
     collectionName |-> ""]

Result(type, columns, rows, message, collectionName) ==
    [type |-> type, columns |-> columns, rows |-> rows, message |-> message,
     collectionName |-> collectionName]

\* a catch clause that drops the message of the error it caught
ErrorResultGeneric(e) ==
    Result("error", <<>>, <<>>, "Unknown error occurred", "")

\* the catch clause of runQuery
ErrorResult(e) ==
    Result("error", <<>>, <<>>,
           IF e.message # "" THEN e.message ELSE "Unknown error occurred", "")

\* a SELECT branch that does not take id out of the keys of the first row
ReadResultKeepsId(collection, data) ==
    Result("read",
           IF Len(data) > 0 THEN <<"id">> \o ObjectKeys(data[1]) ELSE <<"id">>,
           data,
           "Fetched " \o ToString(Len(data)) \o " documents from '"
               \o collection \o "'",
           collection)

\* a SELECT branch that gives an empty listing no columns at all
ReadResultNoColumns(collection, data) ==
    Result("read",
           IF Len(data) > 0
           THEN <<"id">> \o Without(ObjectKeys(data[1]), "id") ELSE <<>>,
           data,
           "Fetched " \o ToString(Len(data)) \o " documents from '"
               \o collection \o "'",
           collection)

\* the read Result of the SELECT branch
ReadResult(collection, data) ==
    LET columns == IF Len(data) > 0
                   THEN <<"id">> \o Without(ObjectKeys(data[1]), "id")
                   ELSE <<"id">>
    IN  Result("read", columns, data,
               "Fetched " \o ToString(Len(data)) \o " documents from '"
                   \o collection \o "'",
               collection)

StatusRow(id, status) == <<Entry("id", id), Entry("status", status)>>

CreatedResult(collection, id) ==
    Result("write", <<"id", "status">>, <<StatusRow(id, "Created")>>,
           "Document created in '" \o collection \o "' with ID: " \o id,
           collection)

UpdatedResult(collection, docId) ==
    Result("write", <<"id", "status">>, <<StatusRow(docId, "Updated")>>,
           "Document '" \o docId \o "' updated in '" \o collection \o "'",
           collection)

DeletedResult(collection, docId) ==
    Result("write", <<"id", "status">>, <<StatusRow(docId, "Deleted")>>,
           "Document '" \o docId \o "' deleted from '" \o collection \o "'",
           collection)

\* a call of one of the four operations of the Store Adapter
AdapterCall(op, col, docId, where, data) ==
    [op |-> op, col |-> col, docId |-> docId, where |-> where, data |-> data]

NoLocals == [collection |-> "", docId |-> ""]

\* runQuery ran to its first await, or to the throw its catch clause takes:
\* the adapter calls made, the locals it keeps, and the step of the adapter
Ran(calls, collection, docId, step) ==
    [calls |-> calls, locals |-> [collection |-> collection, docId |-> docId],
     step |-> step]

SyntaxErrorMessage ==
    "Syntax error: Query not recognized. Use SELECT, INSERT, UPDATE, or DELETE with supported syntax."

WhereClause(whereField, whereOp, whereVal) ==
    IF whereField # "" /\ whereOp # "" /\ whereVal # ""
    THEN [def |-> TRUE, field |-> whereField, op |-> whereOp, value |-> whereVal]
    ELSE NoWhere

SelectBranch(collection, whereClause, connected) ==
    Ran(<<AdapterCall("executeSelect", collection, "", whereClause, NoJson)>>,
        collection, "", executeSelect(connected, collection, whereClause))

runQuerySelect(m, connected) ==
    SelectBranch(CapStr(m, 1),
                 WhereClause(CapStr(m, 2), CapStr(m, 3), CapStr(m, 4)), connected)

\* an INSERT branch that calls the adapter whatever JSON.parse made of the
\* payload
InsertBranchUnchecked(collection, jsonData, connected) ==
    Ran(<<AdapterCall("executeInsert", collection, "", NoWhere, jsonData.val)>>,
        collection, "", executeInsert(connected, collection, jsonData.val))

InsertBranch(collection, jsonData, connected) ==
    IF ~jsonData.ok
    THEN Ran(<<>>, collection, "",
             Threw(Error("parser", "Invalid JSON in INSERT statement.")))
    ELSE Ran(<<AdapterCall("executeInsert", collection, "", NoWhere, jsonData.val)>>,
             collection, "", executeInsert(connected, collection, jsonData.val))

runQueryInsert(m, connected) ==
    InsertBranch(CapStr(m, 1), JsonParse(CapStr(m, 2)), connected)

UpdateBranch(collection, jsonData, docId, connected) ==
    IF ~jsonData.ok
    THEN Ran(<<>>, collection, docId,
             Threw(Error("parser", "Invalid JSON in UPDATE statement.")))
    ELSE Ran(<<AdapterCall("executeUpdate", collection, docId, NoWhere, jsonData.val)>>,
             collection, docId,
             executeUpdate(connected, collection, docId, jsonData.val))

runQueryUpdate(m, connected) ==
    UpdateBranch(CapStr(m, 1), JsonParse(CapStr(m, 2)),
                 removeQuotes(CapStr(m, 3)), connected)

DeleteBranch(collection, docId, connected) ==
    Ran(<<AdapterCall("executeDelete", collection, docId, NoWhere, NoJson)>>,
        collection, docId, executeDelete(connected, collection, docId))

runQueryDelete(m, connected) ==
    DeleteBranch(CapStr(m, 1), removeQuotes(CapStr(m, 2)), connected)

Dispatch(q, selectMatch, insertMatch, updateMatch, deleteMatch, connected) ==
    IF selectMatch.matched THEN runQuerySelect(selectMatch, connected)
    ELSE IF insertMatch.matched THEN runQueryInsert(insertMatch, connected)
    ELSE IF updateMatch.matched THEN runQueryUpdate(updateMatch, connected)
    ELSE IF deleteMatch.matched THEN runQueryDelete(deleteMatch, connected)
    ELSE Ran(<<>>, "", "", Threw(Error("parser", SyntaxErrorMessage)))

Shapes(q, connected) ==
    Dispatch(q, ExecAnchored(selectRegex, q), ExecAnchored(insertRegex, q),
             ExecAnchored(updateRegex, q), ExecAnchored(deleteRegex, q), connected)

\* the four shapes are tried in this order and the first that matches wins
runQuery(text, connected) == Shapes(Trim(text), connected)

\* String(value) of a parsed JSON value (the strings of the model's payloads
\* carry no escape sequences, so the text of a string is its value)
RECURSIVE JsonToString(_)
RECURSIVE JoinItems(_)
JsonToString(v) ==
    CASE v.kind = "object" -> "[object Object]"
      [] v.kind = "array" -> JoinItems(v.items)
      [] OTHER -> v.text

JoinItems(items) ==
    IF items = <<>> THEN ""
    ELSE LET h == IF Head(items).kind = "null" THEN "" ELSE JsonToString(Head(items))
         IN  IF Len(items) = 1 THEN h ELSE h \o "," \o JoinItems(Tail(items))

LastIndexOfKey(items, k) ==
    CHOOSE i \in 1..Len(items) :
        /\ items[i].key = k
        /\ \A j \in (i + 1)..Len(items) : items[j].key # k

\* ({ id: docRef.id, ...data }).id : an id property of the payload wins
InsertedId(docRefId, data) ==
    IF data.kind = "object" /\ HasKey(data.items, "id")
    THEN JsonToString(data.items[LastIndexOfKey(data.items, "id")].val)
    ELSE docRefId

\* ------------------------------------------------------------------------
\* The inputs: statements, the documents of the store, Firestore's outcomes
\* ------------------------------------------------------------------------
MaxPad == 1

RECURSIVE Spaces(_)
Spaces(n) == IF n = 0 THEN "" ELSE " " \o Spaces(n - 1)

Pads == { Spaces(n) : n \in 0..MaxPad }

Operators == {"=", "!=", ">", "<", ">=", "<="}

ValueTokens ==
    {"21", "true", "false", "'Ann'", "\"Ann\"", "Ann", "'21'", "'\"x\"'"}

Payloads ==
    {"{\"name\":\"Ann\"}", "{}", "{ \"id\" : \"z\", \"n\" : [1, null] }",
     "{bad}", "{\"name\":}", "1", "\"x\"", "null", "[1]"}

IdTokens == {"'abc123'", "\"abc123\"", "abc123", "'a\"b'", "''"}

\* the parts a statement is written from; a part that the kind of statement
\* does not have is empty
Written(kind, col, field, op, value, payload, id) ==
    [kind |-> kind, col |-> col, field |-> field, op |-> op, value |-> value,
     payload |-> payload, id |-> id]

Statement(text, written) == [text |-> text, written |-> written]

SelectStatements ==
    { Statement(kw \o "users", Written("select", "users", "", "", "", "", "")) :
          kw \in {"SELECT * FROM ", "select  *\tfrom ", " Select * From "} }
    \cup
    { Statement("SELECT * FROM users WHERE age" \o p \o op \o p \o v,
                Written("select", "users", "age", op, v, "", "")) :
          p \in Pads, op \in Operators, v \in ValueTokens }

InsertStatements ==
    { Statement("INSERT INTO users JSON " \o j,
                Written("insert", "users", "", "", "", j, "")) : j \in Payloads }

UpdateStatements ==
    { Statement("UPDATE users SET JSON " \o j \o " WHERE id" \o p \o "=" \o p \o id,
                Written("update", "users", "", "", "", j, id)) :
          p \in Pads, j \in Payloads, id \in {"'abc123'", "abc123"} }

DeleteStatements ==
    { Statement(kw \o "users WHERE id" \o p \o "=" \o p \o id,
                Written("delete", "users", "", "", "", "", id)) :
          kw \in {"DELETE FROM ", "delete from "}, p \in Pads, id \in IdTokens }

OtherStatements ==
    { Statement(s, Written("other", "", "", "", "", "", "")) :
          s \in {"", " ", "SELECT * FROM users LIMIT 5", "SELECT name FROM users",
                 "DROP TABLE users", "DELETE FROM users",
                 "INSERT INTO users {\"name\":\"Ann\"}",
                 "UPDATE users SET JSON {} WHERE name = 'Ann'",
                 "DELETE FROM users WHERE id = 'abc\n123'"} }

Statements ==
    SelectStatements \cup InsertStatements \cup UpdateStatements
        \cup DeleteStatements \cup OtherStatements

\* the documents of the collection: an id and the fields in stored order
Doc(id, data) == [id |-> id, data |-> data]

Documents ==
    { Doc("d1", <<Entry("age", "30"), Entry("name", "Ann")>>),
      Doc("d2", <<Entry("name", "Bob"), Entry("age", "41"), Entry("city", "Rome")>>),
      Doc("d3", <<>>),
      Doc("d4", <<Entry("id", "own")>>) }

RECURSIVE SeqsUpTo(_, _)
SeqsUpTo(S, n) ==
    IF n = 0 THEN {<<>>}
    ELSE LET shorter == SeqsUpTo(S, n - 1)
         IN  shorter \cup { Append(q, d) : q \in shorter, d \in S }

NoRepeat(q) == \A i, j \in 1..Len(q) : q[i] = q[j] => i = j

\* the listings a query can yield: a filtered listing yields only documents
\* that carry the filtered field
Listings(field) ==
    { q \in SeqsUpTo(Documents, MaxDocs) :
          /\ NoRepeat(q)
          /\ field # "" => \A i \in 1..Len(q) : HasKey(q[i].data, field) }

\* the messages of the errors Firestore rejects a call with
FailureMessages == {"Missing or insufficient permissions.", "unavailable"}

\* the ids Firestore generates for created documents
GeneratedIds == {"gen1"}

\* ------------------------------------------------------------------------
\* The values of a table cell, and the documents a session pages through
\* ------------------------------------------------------------------------
\* a JavaScript value as JSON.parse builds it: its kind, the text of a scalar,
\* the entries or elements of an object or an array
Js(kind, text) == [kind |-> kind, text |-> text, items |-> <<>>]

JsNull == Js("null", "null")

\* typeof value === 'object'
IsObjectType(v) == v.kind \in {"object", "array", "null"}

ObjectOf(entries) == [kind |-> "object", text |-> "", items |-> entries]

\* the texts of a sequence joined with sep between them
RECURSIVE JoinWith(_, _)
JoinWith(texts, sep) ==
    IF texts = <<>> THEN ""
    ELSE IF Len(texts) = 1 THEN texts[1]
    ELSE texts[1] \o sep \o JoinWith(Tail(texts), sep)

\* str.toLowerCase()
ToLowerCase(str) ==
    IF str = "" THEN ""
    ELSE JoinWith([i \in 1..Len(str) |->
                       IF CharAt(str, i) \in UpperChars
                       THEN CharAt(Lowers, IndexIn(Uppers, CharAt(str, i)))
                       ELSE CharAt(str, i)], "")

\* JSON.stringify(v): NaN is written null
RECURSIVE Stringify(_)
Stringify(v) ==
    CASE v.kind = "object" ->
             "{" \o JoinWith([i \in 1..Len(v.items) |->
                                  "\"" \o v.items[i].key \o "\":"
                                      \o Stringify(v.items[i].val)], ",") \o "}"
      [] v.kind = "array" ->
             "[" \o JoinWith([i \in 1..Len(v.items) |-> Stringify(v.items[i])], ",")
                 \o "]"
      [] v.kind = "string" -> "\"" \o v.text \o "\""
      [] v.kind = "number" /\ v.text = "NaN" -> "null"
      [] OTHER -> v.text

\* JSON.stringify(v, null, 2), the text at nesting depth n
RECURSIVE Pretty(_, _)
Pretty(v, n) ==
    CASE v.kind = "object" /\ v.items # <<>> ->
             "{\n"
                 \o JoinWith([i \in 1..Len(v.items) |->
                                  Spaces(2 * (n + 1)) \o "\"" \o v.items[i].key
                                      \o "\": " \o Pretty(v.items[i].val, n + 1)],
                             ",\n")
                 \o "\n" \o Spaces(2 * n) \o "}"
      [] v.kind = "array" /\ v.items # <<>> ->
             "[\n"
                 \o JoinWith([i \in 1..Len(v.items) |->
                                  Spaces(2 * (n + 1)) \o Pretty(v.items[i], n + 1)],
                             ",\n")
                 \o "\n" \o Spaces(2 * n) \o "]"
      [] OTHER -> Stringify(v)

\* row[k] of a row that has the property
ObjectGet(row, k) == row[CHOOSE i \in 1..Len(row) : row[i].key = k].val

\* null and undefined: both are falsy, and both as a cursor mean the start
\* of the collection
Null == ""

\* the collections of the store a session reads, each in the order the
\* store lists it
Stored(col) ==
    CASE col = "users" ->
             << Doc("u1", <<Entry("name", Js("string", "Ann")),
                            Entry("age", Js("number", "30"))>>),
                Doc("u2", <<Entry("name", Js("string", "Bob"))>>),
                Doc("u3", <<>>) >>
      [] OTHER -> <<>>

\* the number of documents the store returns for one page
PageSize == 2

\* ------------------------------------------------------------------------
\* services/queryEngine as App.tsx calls it: runQuery(q, cursor), whose read
\* Result carries lastDoc
\* ------------------------------------------------------------------------
\* the offset of the document the cursor identifies in a listing: 0 for the
\* start of the collection, -1 for a token of no document of the listing
CursorOffset(listing, cursor) ==
    IF cursor = Null THEN 0
    ELSE IF \E i \in 1..Len(listing) : listing[i].id = cursor
    THEN CHOOSE i \in 1..Len(listing) : listing[i].id = cursor
    ELSE -1

PageFrom(listing, from) ==
    IF from < 0 THEN <<>>
    ELSE SubSeq(listing, from + 1,
                IF from + PageSize < Len(listing) THEN from + PageSize
                ELSE Len(listing))

\* list(collection, filter, cursor): the documents after the cursor, a page
\* of them at most
ListPage(col, cursor) == PageFrom(Stored(col), CursorOffset(Stored(col), cursor))

\* a read Result that drops the token of its last document
WithoutLastDoc(r, documents) == r

\* pageCursor is the token the adapter reports for the last item, or absent
\* if zero rows
WithLastDoc(r, documents) ==
    IF documents = <<>> THEN r
    ELSE [f \in DOMAIN r \cup {"lastDoc"} |->
              IF f = "lastDoc" THEN documents[Len(documents)].id ELSE r[f]]

\* the read Result of one page
PageResult(col, documents) ==
    WithLastDoc(ReadResult(col, [i \in 1..Len(documents) |-> DocToRow(documents[i])]),
                documents)

\* result.lastDoc
LastDoc(r) == IF "lastDoc" \in DOMAIN r THEN r.lastDoc ELSE Null

\* ------------------------------------------------------------------------
\* The state
\* ------------------------------------------------------------------------
VARIABLES
    queryString,  \* the argument of runQuery
    written,      \* the parts queryString was written from
    db,           \* TRUE when the module variable db holds a Firestore
    docs,         \* the documents the store lists for the statement's query
    pc,           \* where runQuery is: idle, the Firestore call awaited, done
    locals,       \* collection and docId of the suspended runQuery
    calls,        \* the Store Adapter operations called, in order
    sdk,          \* the Firestore calls issued, in order
    err,          \* the error the catch clause of runQuery caught
    result        \* the Result the promise of runQuery resolved to; in a
                  \* session, the Result App holds (null is NoResult)

\* the state of App and of ResultsTable, and the promises of a session
VARIABLES
    query,        \* the text of the query editor
    loading,      \* TRUE from the start of a fetch to the end of any fetch
    history,      \* the QueryHistoryItems, in the order they were appended
    page,         \* the page counter, from 1
    cursors,      \* the stack of cursors; cursors[n + 1] is index n of the array
    fetches,      \* the calls of runQuery by fetchData that are pending, in order
    writes,       \* the calls of executeUpdate and executeInsert by App that
                  \* are pending, in order
    recent,       \* the last three calls of runQuery by fetchData, in order:
                  \* the handler and the cursor of each
    active,       \* the statement last submitted, while the editor keeps its
                  \* text; Null once the text was changed
    issued,       \* the number of calls of runQuery by fetchData so far
    submits,      \* the number of statements submitted so far
    edits,        \* the number of cell edits and row inserts started so far
    editingLoc,   \* the cell being edited (NoLoc is null)
    editValue,    \* the text of the edit widget
    editType,     \* the type selected in the edit widget
    appState      \* the screen App shows: LOGIN, or EDITOR

vars ==
    <<queryString, written, db, docs, pc, locals, calls, sdk, err, result,
      query, loading, history, page, cursors, fetches, writes,
      recent, active, issued, submits, edits, editingLoc, editValue, editType,
      appState>>

env == <<queryString, written, db, docs>>

\* what a step of runQuery alone leaves as it is
session ==
    <<query, loading, history, page, cursors, fetches, writes,
      recent, active, issued, submits, edits, editingLoc, editValue, editType,
      appState>>

\* what a step of a session leaves as it is
engine == <<queryString, written, docs, pc, locals, calls, sdk, err>>

table == <<editingLoc, editValue, editType>>

NoLoc == [id |-> "", col |-> ""]

\* the state App and ResultsTable are constructed with
Mounted ==
    /\ query = "SELECT * FROM users LIMIT 5"
    /\ loading = FALSE
    /\ history = <<>>
    /\ page = 1
    /\ cursors = <<Null>>
    /\ fetches = <<>>
    /\ writes = <<>>
    /\ recent = <<>>
    /\ active = Null
    /\ issued = 0
    /\ submits = 0
    /\ edits = 0
    /\ editingLoc = NoLoc
    /\ editValue = ""
    /\ editType = "string"
    /\ appState = "LOGIN"

Init ==
    /\ \E st \in Statements :
           /\ queryString = st.text
           /\ written = st.written
           /\ docs \in IF st.written.kind = "select"
                      THEN Listings(st.written.field) ELSE {<<>>}
    /\ db \in BOOLEAN
    /\ pc = "idle"
    /\ locals = NoLocals
    /\ calls = <<>>
    /\ sdk = <<>>
    /\ err = NoError
    /\ result = NoResult
    /\ Mounted

\* runQuery ran as r says: its catch clause resolves the promise at once
Suspend(r) ==
    /\ calls' = r.calls
    /\ locals' = r.locals
    /\ sdk' = r.step.sdk
    /\ err' = r.step.err
    /\ pc' = r.step.pc
    /\ result' = IF r.step.err.thrown THEN ErrorResult(r.step.err) ELSE NoResult

\* the call of runQuery, up to its first await or to its catch clause
RunQuery ==
    /\ pc = "idle"
    /\ Suspend(runQuery(queryString, db))
    /\ UNCHANGED <<env, session>>

\* the awaited Firestore call rejects: the operation rethrows to runQuery
SdkReject ==
    /\ pc \in {"getDocs", "addDoc", "updateDoc", "getDoc", "deleteDoc"}
    /\ \E message \in FailureMessages :
           /\ err' = Error(pc, message)
           /\ result' = ErrorResult(Error(pc, message))
    /\ pc' = "done"
    /\ UNCHANGED <<env, locals, calls, sdk, session>>

GetDocsResolve ==
    /\ pc = "getDocs"
    /\ result' = ReadResult(locals.collection,
                            [i \in 1..Len(docs) |-> DocToRow(docs[i])])
    /\ pc' = "done"
    /\ UNCHANGED <<env, locals, calls, sdk, err, session>>

\* Firestore takes only an object as the data of a document
AddDocResolve ==
    /\ pc = "addDoc"
    /\ sdk[Len(sdk)].data.kind = "object"
    /\ \E id \in GeneratedIds :
           result' = CreatedResult(locals.collection,
                                   InsertedId(id, sdk[Len(sdk)].data))
    /\ pc' = "done"
    /\ UNCHANGED <<env, locals, calls, sdk, err, session>>

\* executeUpdate goes on to the point read
UpdateDocResolve ==
    /\ pc = "updateDoc"
    /\ sdk[Len(sdk)].data.kind = "object"
    /\ sdk' = Append(sdk, SdkCall("getDoc", locals.collection, locals.docId,
                                  NoFilter, NoJson))
    /\ pc' = "getDoc"
    /\ UNCHANGED <<env, locals, calls, err, result, session>>

GetDocResolve ==
    /\ pc = "getDoc"
    /\ result' = UpdatedResult(locals.collection, locals.docId)
    /\ pc' = "done"
    /\ UNCHANGED <<env, locals, calls, sdk, err, session>>

DeleteDocResolve ==
    /\ pc = "deleteDoc"
    /\ result' = DeletedResult(locals.collection, locals.docId)
    /\ pc' = "done"
    /\ UNCHANGED <<env, locals, calls, sdk, err, session>>

Next ==
    \/ RunQuery
    \/ SdkReject
    \/ GetDocsResolve
    \/ AddDocResolve
    \/ UpdateDocResolve
    \/ GetDocResolve
    \/ DeleteDocResolve

Spec == Init /\ [][Next]_vars

SdkFunctions == {"getDocs", "addDoc", "updateDoc", "getDoc", "deleteDoc"}

TypeOK ==
    /\ pc \in {"idle", "done"} \cup SdkFunctions
    /\ result.type \in {"none", "read", "write", "error"}
    /\ db \in BOOLEAN
    /\ Len(calls) <= 1
    /\ Len(sdk) <= 2

\* ------------------------------------------------------------------------
\* App.tsx: a session of the editor. Each handler runs to its first await in
\* one step; the promise it awaits settles in a later step, in any order.
\* ------------------------------------------------------------------------
MaxFetches == 6

\* the statements submitted in a session, at most
MaxRuns == 2

\* the cell edits and row inserts started in a session, at most
MaxEdits == 1

\* the calls of runQuery in a session that edits a cell or inserts a row, at
\* most
MaxFetchesEditing == 3

FetchBudget == IF edits = 0 THEN MaxFetches ELSE MaxFetchesEditing

\* the texts the user types into the query editor
Queries == {"SELECT * FROM users", "SELECT * FROM users LIMIT 5"}

\* the collections of the sidebar the user clicks
SidebarCollections == {"users"}

HistoryItem(q, status) == [query |-> q, status |-> status]

Fetch(by, q, cursor, col) == [by |-> by, q |-> q, cursor |-> cursor, col |-> col]

Called(by, cursor) == [by |-> by, cursor |-> cursor]

\* array[k], undefined past the end
ArrayGet(array, k) == IF k < Len(array) THEN array[k + 1] ELSE Null

\* array[k] = v: the elements between the end and k stay undefined
ArraySet(array, k, v) ==
    [i \in 1..(IF k < Len(array) THEN Len(array) ELSE k + 1) |->
         IF i = k + 1 THEN v ELSE IF i <= Len(array) THEN array[i] ELSE Null]

LastThree(calls3) ==
    IF Len(calls3) <= 3 THEN calls3 ELSE SubSeq(calls3, Len(calls3) - 2, Len(calls3))

\* fetchData(q, cursor) up to its await, for the handler named by; r is
\* runQuery up to its first await. A runQuery that throws before it awaits
\* resolves to an error Result before any other event is handled.
FetchData(by, q, cursor, r) ==
    /\ issued' = issued + 1
    /\ recent' = LastThree(Append(recent, Called(by, cursor)))
    /\ IF r.step.err.thrown
       THEN /\ result' = ErrorResult(r.step.err)
            /\ loading' = FALSE
            /\ history' = IF by = "run"
                          THEN Append(history, HistoryItem(q, "error")) ELSE history
            /\ UNCHANGED fetches
       ELSE /\ loading' = TRUE
            /\ fetches' = Append(fetches, Fetch(by, q, cursor, r.locals.collection))
            /\ UNCHANGED <<result, history>>

paging == <<result, loading, history, page, cursors, fetches, recent, issued>>

\* a handleRunQuery that goes back to page 1 and keeps the stack
SubmitKeepsCursors(qToRun) ==
    IF Trim(qToRun) = ""
    THEN UNCHANGED <<paging, active, submits>>
    ELSE /\ page' = 1
         /\ UNCHANGED cursors
         /\ active' = qToRun
         /\ submits' = submits + 1
         /\ FetchData("run", qToRun, Null, runQuery(qToRun, db))

\* handleRunQuery(overrideQuery) with qToRun = overrideQuery || query
Submit(qToRun) ==
    IF Trim(qToRun) = ""
    THEN UNCHANGED <<paging, active, submits>>
    ELSE /\ page' = 1
         /\ cursors' = <<Null>>
         /\ active' = qToRun
         /\ submits' = submits + 1
         /\ FetchData("run", qToRun, Null, runQuery(qToRun, db))

\* the query editor's onChange, and the sidebar's onSelectQuery
SetQuery ==
    /\ appState = "EDITOR"
    /\ \E text \in Queries \ {query} :
           /\ query' = text
           /\ active' = Null
    /\ UNCHANGED <<db, appState, paging, submits, writes, edits, table, engine>>

\* the RUN button, and Enter with the meta or control key (handleKeyDown)
HandleRunQuery ==
    /\ appState = "EDITOR"
    /\ issued < FetchBudget
    /\ submits < MaxRuns
    /\ Submit(query)
    /\ UNCHANGED <<db, appState, query, writes, edits, table, engine>>

HandleCollectionSelect ==
    /\ appState = "EDITOR"
    /\ issued < FetchBudget
    /\ submits < MaxRuns
    /\ \E colName \in SidebarCollections :
           /\ query' = "SELECT * FROM " \o colName \o " LIMIT 5"
           /\ Submit("SELECT * FROM " \o colName \o " LIMIT 5")
    /\ UNCHANGED <<db, appState, writes, edits, table, engine>>

\* handleNextPage past its guard: nextCursor is result.lastDoc and newCursors
\* the stack with the cursor stored if the page was not visited before
NextPage(nextCursor, newCursors) ==
    /\ cursors' = newCursors
    /\ page' = page + 1
    /\ FetchData("next", query, nextCursor, runQuery(query, db))

\* a guard that looks for a Result only
NoResultHeld(r) == r = NoResult

\* !result || !result.lastDoc
NoPageCursor(r) == r = NoResult \/ LastDoc(r) = Null

HandleNextPage ==
    /\ appState = "EDITOR"
    /\ issued < FetchBudget
    /\ IF NoPageCursor(result)
       THEN UNCHANGED paging
       ELSE NextPage(LastDoc(result),
                     IF ArrayGet(cursors, page) = Null
                     THEN ArraySet(cursors, page, LastDoc(result))
                     ELSE cursors)
    /\ UNCHANGED <<db, appState, query, active, submits, writes, edits, table, engine>>

\* a previous page fetched with the cursor at the index of the page itself
PrevPageOffByOne(prevPage) ==
    /\ page' = prevPage
    /\ FetchData("prev", query, ArrayGet(cursors, prevPage), runQuery(query, db))
    /\ UNCHANGED cursors

\* handlePrevPage past its guard
PrevPage(prevPage) ==
    /\ page' = prevPage
    /\ FetchData("prev", query, ArrayGet(cursors, prevPage - 1), runQuery(query, db))
    /\ UNCHANGED cursors

HandlePrevPage ==
    /\ appState = "EDITOR"
    /\ issued < FetchBudget
    /\ IF page <= 1 THEN UNCHANGED paging ELSE PrevPage(page - 1)
    /\ UNCHANGED <<db, appState, query, active, submits, writes, edits, table, engine>>

\* a sequence without its element i
Remove(seq, i) == SubSeq(seq, 1, i - 1) \o SubSeq(seq, i + 1, Len(seq))

\* a fetchData that drops the response of a call that is not the latest
FetchSettlesIfLatest(i, res) ==
    /\ result' = IF i = Len(fetches) THEN res ELSE result
    /\ loading' = FALSE
    /\ fetches' = Remove(fetches, i)
    /\ history' = IF fetches[i].by = "run"
                  THEN Append(history,
                              HistoryItem(fetches[i].q,
                                          IF res.type = "error" THEN "error"
                                          ELSE "success"))
                  ELSE history
    /\ UNCHANGED <<db, appState, query, page, cursors, recent, active, issued, submits,
                   writes, edits, table, engine>>

\* fetchData after its await, and handleRunQuery after fetchData
FetchSettles(i, res) ==
    /\ result' = res
    /\ loading' = FALSE
    /\ fetches' = Remove(fetches, i)
    /\ history' = IF fetches[i].by = "run"
                  THEN Append(history,
                              HistoryItem(fetches[i].q,
                                          IF res.type = "error" THEN "error"
                                          ELSE "success"))
                  ELSE history
    /\ UNCHANGED <<db, appState, query, page, cursors, recent, active, issued, submits,
                   writes, edits, table, engine>>

\* the store lists the page: runQuery resolves to the read Result
FetchResolve ==
    \E i \in 1..Len(fetches) :
        FetchSettles(i, PageResult(fetches[i].col,
                                   ListPage(fetches[i].col, fetches[i].cursor)))

\* the store rejects the listing: runQuery resolves to an error Result
FetchReject ==
    \E i \in 1..Len(fetches) :
        \E message \in FailureMessages :
            FetchSettles(i, ErrorResult(Error("getDocs", message)))

\* ------------------------------------------------------------------------
\* components/ResultsTable.tsx: the edit widget of a cell
\* ------------------------------------------------------------------------
EditTypes == {"string", "number", "boolean", "json", "null"}

\* the texts the user types into the edit widget
EditTexts == {"7", "TRUE", "{\"a\": [1]}", "{bad"}

\* what handleStartEdit shows for the current value of the cell
Editing(type, initialEditValue) == [type |-> type, value |-> initialEditValue]

InitialEdit(row, col) ==
    IF ~HasKey(row, col) THEN Editing("null", "")
    ELSE CASE ObjectGet(row, col).kind = "null" -> Editing("null", "")
           [] ObjectGet(row, col).kind = "number" ->
                  Editing("number", JsonToString(ObjectGet(row, col)))
           [] ObjectGet(row, col).kind = "boolean" ->
                  Editing("boolean", JsonToString(ObjectGet(row, col)))
           [] ObjectGet(row, col).kind \in {"object", "array"} ->
                  Editing("json", Pretty(ObjectGet(row, col), 0))
           [] OTHER -> Editing("string", JsonToString(ObjectGet(row, col)))

StartEdit(id, col, shown) ==
    /\ editingLoc' = [id |-> id, col |-> col]
    /\ editType' = shown.type
    /\ editValue' = shown.value

\* the cell of row i and column col is rendered, and is not the one edited
Clickable(i, col) ==
    /\ i \in 1..Len(result.rows)
    /\ \E k \in 1..Len(result.columns) : result.columns[k] = col
    /\ editingLoc # [id |-> ObjectGet(result.rows[i], "id"), col |-> col]

\* a click on a cell: handleStartEdit(row.id, col, row[col])
HandleStartEdit ==
    /\ appState = "EDITOR"
    /\ edits < MaxEdits
    /\ issued <= MaxFetchesEditing
    /\ \E i \in 1..Len(result.rows), k \in 1..Len(result.columns) :
           /\ Clickable(i, result.columns[k])
           /\ result.columns[k] # "id"
           /\ result.type = "read"
           /\ StartEdit(ObjectGet(result.rows[i], "id"), result.columns[k],
                        InitialEdit(result.rows[i], result.columns[k]))
    /\ edits' = edits + 1
    /\ UNCHANGED <<db, appState, query, paging, active, submits, writes, engine>>

\* the edit widget is rendered: the edited cell is a cell of the table
WidgetShown ==
    /\ editingLoc # NoLoc
    /\ \E i \in 1..Len(result.rows) : ObjectGet(result.rows[i], "id") = editingLoc.id
    /\ \E k \in 1..Len(result.columns) : result.columns[k] = editingLoc.col

\* the type buttons of the widget
SetEditType ==
    /\ appState = "EDITOR"
    /\ WidgetShown
    /\ \E type \in EditTypes \ {editType} : editType' = type
    /\ UNCHANGED <<db, appState, query, paging, active, submits, writes, edits,
                   editingLoc, editValue, engine>>

\* the input of the widget, which the null type does not show
SetEditValue ==
    /\ appState = "EDITOR"
    /\ WidgetShown
    /\ editType # "null"
    /\ \E text \in EditTexts \ {editValue} : editValue' = text
    /\ UNCHANGED <<db, appState, query, paging, active, submits, writes, edits,
                   editingLoc, editType, engine>>

\* Escape in the widget
HandleEscape ==
    /\ appState = "EDITOR"
    /\ WidgetShown
    /\ editingLoc' = NoLoc
    /\ UNCHANGED <<db, appState, query, paging, active, submits, writes, edits,
                   editValue, editType, engine>>

\* Number(editValue) as a value of a cell
NumberOf(num) == Js("number", IF num.nan THEN "NaN" ELSE ToString(num.n))

\* the switch of handleSave: ok is FALSE where JSON.parse throws
Final(ok, val) == [ok |-> ok, val |-> val]

\* a switch whose json case takes the text as it is
FinalValUnparsed(type, text) ==
    CASE type = "number" ->
             Final(TRUE, IF Trim(text) = "" THEN Js("number", "0")
                         ELSE NumberOf(StringToNumber(text)))
      [] type = "boolean" ->
             Final(TRUE, Js("boolean", IF ToLowerCase(text) = "true" THEN "true"
                                       ELSE "false"))
      [] type = "null" -> Final(TRUE, JsNull)
      [] type = "json" -> Final(TRUE, Js("string", text))
      [] OTHER -> Final(TRUE, Js("string", text))

FinalVal(type, text) ==
    CASE type = "number" ->
             Final(TRUE, IF Trim(text) = "" THEN Js("number", "0")
                         ELSE NumberOf(StringToNumber(text)))
      [] type = "boolean" ->
             Final(TRUE, Js("boolean", IF ToLowerCase(text) = "true" THEN "true"
                                       ELSE "false"))
      [] type = "null" -> Final(TRUE, JsNull)
      [] type = "json" -> Final(JsonParse(text).ok, JsonParse(text).val)
      [] OTHER -> Final(TRUE, Js("string", text))

\* ------------------------------------------------------------------------
\* App.tsx: the reconciler (handleCellUpdate, handleRowInsert)
\* ------------------------------------------------------------------------
\* the field mappings the insert form submits
InsertData ==
    { <<Entry("name", Js("string", "Dee")), Entry("tags", Js("array", ""))>>, <<>> }

Write(op, col, docId, data, step) ==
    [op |-> op, col |-> col, docId |-> docId, data |-> data, pc |-> step]

\* the adapter call of the reconciler up to its await: a call that throws is
\* caught at once (an alert), one that awaits is pending
Reconcile(op, col, docId, data, r) ==
    writes' = IF r.err.thrown THEN writes
              ELSE Append(writes, Write(op, col, docId, data, r.pc))

\* an optimistic update that rewrites the row at the index of the first match
RewriteAtIndex(rows, docId, field, value) ==
    IF \E i \in 1..Len(rows) : ObjectGet(rows[i], "id") = docId
    THEN [rows EXCEPT ![1] = ObjectSet(rows[1], field, value)]
    ELSE rows

\* rows.map(r => r.id === docId ? { ...r, [field]: value } : r)
Rewrite(rows, docId, field, value) ==
    [i \in 1..Len(rows) |->
         IF ObjectGet(rows[i], "id") = docId
         THEN ObjectSet(rows[i], field, value) ELSE rows[i]]

\* handleCellUpdate(docId, field, value)
HandleCellUpdate(docId, field, value) ==
    IF result = NoResult \/ result.collectionName = ""
    THEN UNCHANGED <<result, writes>>
    ELSE /\ result' = [result EXCEPT !.rows = Rewrite(@, docId, field, value)]
         /\ Reconcile("update", result.collectionName, docId,
                      <<Entry(field, value)>>,
                      executeUpdate(db, result.collectionName, docId,
                                    ObjectOf(<<Entry(field, value)>>)))

Save(final) ==
    IF ~final.ok
    THEN UNCHANGED <<result, writes, editingLoc>>
    ELSE /\ HandleCellUpdate(editingLoc.id, editingLoc.col, final.val)
         /\ editingLoc' = NoLoc

\* Enter in the widget, or a mouse press outside it
HandleSave ==
    /\ appState = "EDITOR"
    /\ WidgetShown
    /\ Save(FinalVal(editType, editValue))
    /\ UNCHANGED <<db, appState, query, loading, history, page, cursors, fetches, recent,
                   issued, active, submits, edits, editValue, editType, engine>>

\* handleRowInsert(data)
HandleRowInsert ==
    /\ appState = "EDITOR"
    /\ edits < MaxEdits
    /\ issued <= MaxFetchesEditing
    /\ result # NoResult
    /\ result.collectionName # ""
    /\ \E data \in InsertData :
           Reconcile("insert", result.collectionName, "", data,
                     executeInsert(db, result.collectionName, ObjectOf(data)))
    /\ edits' = edits + 1
    /\ UNCHANGED <<db, appState, query, paging, active, submits, table, engine>>

\* updateDoc resolves: executeUpdate goes on to the point read
CellWriteResolve ==
    \E i \in 1..Len(writes) :
        /\ writes[i].pc = "updateDoc"
        /\ writes' = [writes EXCEPT ![i].pc = "getDoc"]
        /\ UNCHANGED <<db, appState, query, paging, active, submits, edits, table, engine>>

\* String(value), or 'JSON {...}' for typeof value === 'object'
ValStr(value) == IF IsObjectType(value) THEN "JSON {...}" ELSE JsonToString(value)

UpdateStatement(w) ==
    "UPDATE " \o w.col \o " SET " \o w.data[1].key \o " = " \o ValStr(w.data[1].val)
        \o " WHERE id = '" \o w.docId \o "' (Inline Edit)"

\* a handleCellUpdate that logs the edit in front of the entries held
LoggedUpdateInFront(items, w) ==
    <<HistoryItem(UpdateStatement(w), "success")>> \o items

\* handleCellUpdate after its await
LoggedUpdate(items, w) == Append(items, HistoryItem(UpdateStatement(w), "success"))

\* getDoc resolves: handleCellUpdate logs the edit
CellReadResolve ==
    \E i \in 1..Len(writes) :
        /\ writes[i].pc = "getDoc"
        /\ history' = LoggedUpdate(history, writes[i])
        /\ writes' = Remove(writes, i)
        /\ UNCHANGED <<db, appState, query, result, loading, page, cursors, fetches, recent,
                       issued, active, submits, edits, table, engine>>

InsertStatement(w) ==
    "INSERT INTO " \o w.col \o " JSON " \o Stringify(ObjectOf(w.data))

\* a reconciler that puts the created row after the rows held
AppendedLast(prev, newDoc) ==
    IF prev = NoResult THEN NoResult
    ELSE [prev EXCEPT !.rows = @ \o <<newDoc>>,
                      !.message = "Document added locally. (ID: "
                                      \o ObjectGet(newDoc, "id") \o ")"]

\* setResult(prev => ...) of handleRowInsert
Prepended(prev, newDoc) ==
    IF prev = NoResult THEN NoResult
    ELSE [prev EXCEPT !.rows = <<newDoc>> \o @,
                      !.message = "Document added locally. (ID: "
                                      \o ObjectGet(newDoc, "id") \o ")"]

\* addDoc resolves: handleRowInsert prepends the row and logs the insert
InsertResolve ==
    \E i \in 1..Len(writes) :
        /\ writes[i].pc = "addDoc"
        /\ \E id \in GeneratedIds :
               result' = Prepended(result, Spread(<<Entry("id", id)>>, writes[i].data))
        /\ history' = Append(history, HistoryItem(InsertStatement(writes[i]), "success"))
        /\ writes' = Remove(writes, i)
        /\ UNCHANGED <<db, appState, query, loading, page, cursors, fetches, recent, issued,
                       active, submits, edits, table, engine>>

\* the awaited Firestore call of a write rejects: the catch clause of the
\* handler alerts
WriteReject ==
    \E i \in 1..Len(writes) :
        /\ writes' = Remove(writes, i)
        /\ UNCHANGED <<db, appState, query, paging, active, submits, edits, table, engine>>

\* the sidebar's onLogout: the login screen is shown and ResultsTable is
\* unmounted; what is pending stays pending
OnLogout ==
    /\ appState = "EDITOR"
    /\ appState' = "LOGIN"
    /\ history' = <<>>
    /\ result' = NoResult
    /\ page' = 1
    /\ cursors' = <<Null>>
    /\ active' = Null
    /\ editingLoc' = NoLoc
    /\ editValue' = ""
    /\ editType' = "string"
    /\ UNCHANGED <<db, query, loading, fetches, recent, issued, submits, writes,
                   edits, engine>>

\* handleLoginSuccess, and the configuration dialog after it when there is
\* none stored: the editor is shown, with a ResultsTable mounted anew
HandleLoginSuccess ==
    /\ appState = "LOGIN"
    /\ appState' = "EDITOR"
    /\ UNCHANGED <<db, query, paging, writes, active, submits, edits,
                   table, engine>>

\* a session starts with App mounted, connected or not, and no runQuery of
\* its own
AppInit ==
    /\ queryString = ""
    /\ written = Written("other", "", "", "", "", "", "")
    /\ docs = <<>>
    /\ pc = "idle"
    /\ locals = NoLocals
    /\ calls = <<>>
    /\ sdk = <<>>
    /\ err = NoError
    /\ db \in BOOLEAN
    /\ result = NoResult
    /\ Mounted

AppNext ==
    \/ SetQuery
    \/ HandleRunQuery
    \/ HandleCollectionSelect
    \/ HandleNextPage
    \/ HandlePrevPage
    \/ FetchResolve
    \/ FetchReject
    \/ HandleStartEdit
    \/ SetEditType
    \/ SetEditValue
    \/ HandleEscape
    \/ HandleSave
    \/ HandleRowInsert
    \/ CellWriteResolve
    \/ CellReadResolve
    \/ InsertResolve
    \/ WriteReject
    \/ OnLogout
    \/ HandleLoginSuccess

AppSpec == AppInit /\ [][AppNext]_vars

\* ------------------------------------------------------------------------
\* Properties
\* ------------------------------------------------------------------------
Done == pc = "done"

\* the statement is a SELECT written with a comparator
ComparatorSelect == written.kind = "select" /\ written.op # ""

\* a Firestore call was rejected
StoreFailed == err.thrown /\ err.from \in SdkFunctions

\* the adapter failed: it threw by itself, or the Firestore call it awaited
\* was rejected
AdapterFailed == err.thrown /\ err.from # "parser"

\* C1: runQuery always resolves to a Result, and whenever the adapter failed
\* (a thrown failure, a rejected store call, or no connection) that Result
\* has type error and carries the adapter's failure message.
C1_NeverRaises ==
    /\ Done <=> result.type \in {"read", "write", "error"}
    /\ ~Done => result = NoResult
    /\ AdapterFailed =>
           /\ Done
           /\ result.type = "error"
           /\ result.message = err.message
    /\ (Done /\ ~db /\ calls # <<>>) =>
           /\ result.type = "error"
           /\ result.message = "Database not connected"

C1_Witness ==
    /\ Done
    /\ StoreFailed
    /\ result.type = "error"
    /\ result.message = "Missing or insufficient permissions."

\* C2: a SELECT with a comparator, run against a connected store that lists
\* n matching documents without failing, yields a read Result with n rows and
\* the message Fetched n documents from '<collection>'.
C2_SelectReads ==
    (Done /\ ComparatorSelect /\ db /\ ~StoreFailed) =>
        /\ result.type = "read"
        /\ Len(result.rows) = Len(docs)
        /\ result.message = "Fetched " \o ToString(Len(docs))
                                \o " documents from '" \o written.col \o "'"

\* the typed value the coercion rules give a token
IsNumericToken(token) == token # "" /\ ~StringToNumber(token).nan

ExpectedValue(token) ==
    IF token = "true" THEN BoolVal(TRUE)
    ELSE IF token = "false" THEN BoolVal(FALSE)
    ELSE NumVal(StringToNumber(token).n)

\* C3: the coercion of the WHERE value of a SELECT never raises, a token
\* true or false yields the boolean, any other numeric token yields its
\* number, and the store filter receives that typed value.
C3_CoercionTyped ==
    (pc # "idle" /\ ComparatorSelect /\ db) =>
        /\ ~(err.thrown /\ err.from = "adapter")
        /\ sdk # <<>>
        /\ \A i \in 1..Len(sdk) :
               (sdk[i].fn = "getDocs"
                    /\ (calls[1].where.value \in {"true", "false"}
                            \/ IsNumericToken(calls[1].where.value))) =>
                   sdk[i].filter.value = ExpectedValue(calls[1].where.value)

\* C4: the filter operator handed to the adapter for a SELECT with a
\* comparator is one of the six operators and is the operator text written
\* in the statement, and the value token is the value written.
C4_OperatorLiteral ==
    (pc # "idle" /\ ComparatorSelect) =>
        /\ Len(calls) = 1
        /\ calls[1].where.def
        /\ calls[1].where.op \in Operators
        /\ calls[1].where.op = written.op
        /\ calls[1].where.value = written.value

\* the trimmed statement matches none of the four shapes
NoShape(text) ==
    /\ ~ExecAnchored(selectRegex, Trim(text)).matched
    /\ ~ExecAnchored(insertRegex, Trim(text)).matched
    /\ ~ExecAnchored(updateRegex, Trim(text)).matched
    /\ ~ExecAnchored(deleteRegex, Trim(text)).matched

BadPayload ==
    written.kind \in {"insert", "update"} /\ ~JsonParse(written.payload).ok

\* C5: for a statement that matches none of the four shapes, and for an
\* INSERT or UPDATE whose payload is not valid JSON, no Store Adapter
\* operation is called and the Result is of type error with no columns and
\* no rows.
C5_RejectedBeforeAdapter ==
    (pc # "idle" /\ (NoShape(queryString) \/ BadPayload)) =>
        /\ Done
        /\ calls = <<>>
        /\ sdk = <<>>
        /\ result.type = "error"
        /\ result.columns = <<>>
        /\ result.rows = <<>>

C5_Witness ==
    /\ Done
    /\ written.kind = "insert"
    /\ written.payload = "{bad}"
    /\ calls = <<>>
    /\ result.message = "Invalid JSON in INSERT statement."

\* C6: the payload of every create or update call that reaches the Store
\* Adapter is a JSON object.
C6_PayloadIsObject ==
    \A i \in 1..Len(calls) :
        calls[i].op \in {"executeInsert", "executeUpdate"} =>
            calls[i].data.kind = "object"

\* the id token is wrapped in one pair of single or of double quotes
QuotedId(token) ==
    /\ Len(token) >= 2
    /\ CharAt(token, 1) \in QuoteChars
    /\ CharAt(token, Len(token)) = CharAt(token, 1)

InnerOf(token) == SubSeq(token, 2, Len(token) - 1)

\* C7: for a DELETE whose id is written quoted the adapter's delete is
\* called exactly once, with the collection and the id without its quotes,
\* and when the delete succeeds the Result is of type write with the one row
\* {id, status: Deleted}.
C7_DeleteQuotedId ==
    (pc # "idle" /\ written.kind = "delete" /\ QuotedId(written.id)) =>
        /\ calls = <<AdapterCall("executeDelete", written.col,
                                 InnerOf(written.id), NoWhere, NoJson)>>
        /\ \A i \in 1..Len(sdk) :
               /\ sdk[i].fn = "deleteDoc"
               /\ sdk[i].col = written.col
               /\ sdk[i].docId = InnerOf(written.id)
        /\ (Done /\ ~err.thrown) =>
               /\ result.type = "write"
               /\ result.rows = <<StatusRow(InnerOf(written.id), "Deleted")>>

C7_Witness ==
    /\ Done
    /\ written.kind = "delete"
    /\ written.id = "\"abc123\""
    /\ result.type = "write"
    /\ result.rows = <<StatusRow("abc123", "Deleted")>>

\* C8: when the update of an UPDATE statement succeeded and the confirming
\* point read failed, the Result is of type write with the row
\* {id, status: Updated}.
C8_UpdateSurvivesReadFailure ==
    (Done /\ err.thrown /\ err.from = "getDoc") =>
        /\ result.type = "write"
        /\ result.rows = <<StatusRow(locals.docId, "Updated")>>

\* the fields of the rows, each once, in the order of first appearance
RECURSIVE UnionKeys(_, _)
UnionKeys(rows, acc) ==
    IF rows = <<>> THEN acc
    ELSE UnionKeys(Tail(rows),
                   acc \o SelectSeq(ObjectKeys(Head(rows)),
                                    LAMBDA k : \A i \in 1..Len(acc) : acc[i] # k))

InSeq(seq, v) == \E i \in 1..Len(seq) : seq[i] = v

\* C9 as stated: the columns of a read Result are id and then the union of
\* the fields of all its rows, so every field of any row is a column.
C9_ColumnsAreUnion ==
    result.type = "read" =>
        /\ result.columns = UnionKeys(result.rows, <<"id">>)
        /\ \A r \in 1..Len(result.rows) :
               \A k \in 1..Len(result.rows[r]) :
                   InSeq(result.columns, result.rows[r][k].key)

\* the position of field k in the row
KeyIndex(row, k) == CHOOSE i \in 1..Len(row) : row[i].key = k

\* C9 as amended: the columns of a read Result are id and then the other
\* fields of its first row, each once and in that row's order; with no rows
\* the only column is id.
C9_ColumnsOfFirstRow ==
    result.type = "read" =>
        /\ result.columns[1] = "id"
        /\ \A i, j \in 1..Len(result.columns) :
               result.columns[i] = result.columns[j] => i = j
        /\ \A i \in 2..Len(result.columns) :
               /\ result.rows # <<>>
               /\ HasKey(result.rows[1], result.columns[i])
        /\ result.rows # <<>> =>
               /\ \A k \in 1..Len(result.rows[1]) :
                      InSeq(result.columns, result.rows[1][k].key)
               /\ \A i, j \in 2..Len(result.columns) :
                      i < j => KeyIndex(result.rows[1], result.columns[i])
                                   < KeyIndex(result.rows[1], result.columns[j])

C9_Witness ==
    /\ result.type = "read"
    /\ Len(result.rows) = 2
    /\ result.columns = <<"id", "age", "name">>
    /\ HasKey(result.rows[2], "city")

\* C10 as stated: a read Result has no rows exactly when its columns are
\* just id.
C10_EmptyIffIdOnly ==
    result.type = "read" => (result.rows = <<>> <=> result.columns = <<"id">>)

\* C10 as amended: the columns of a read Result are just id exactly when it
\* has no rows or its first row has no field other than id; so a read Result
\* without rows always has the columns [id].
C10_IdOnlyIffNoFields ==
    result.type = "read" =>
        (result.columns = <<"id">> <=>
            (result.rows = <<>>
                 \/ \A k \in 1..Len(result.rows[1]) : result.rows[1][k].key = "id"))

C10_Witness ==
    /\ result.type = "read"
    /\ result.rows = <<>>
    /\ result.columns = <<"id">>
    /\ result.message = "Fetched 0 documents from 'users'"

\* ------------------------------------------------------------------------
\* Properties of a session
\* ------------------------------------------------------------------------
\* the id of the last row of a Result
LastRowId(r) == ObjectGet(r.rows[Len(r.rows)], "id")

\* a call of runQuery by fetchData resolves in this step
FetchSettled == Len(fetches') < Len(fetches)

NextPageStep == page' = page + 1

\* the cursor of the call of runQuery issued in this step
IssuedCursor == recent'[Len(recent')].cursor

\* C12: a next-page step taken with a Result that carries a page cursor
\* stores that cursor at the index of the page about to be entered if the
\* stack has no entry there, leaves an existing entry and every other entry
\* as they are, adds one to the page counter, and fetches with the cursor
\* the stack then holds for that page.
C12_NextPageFetchesWithStackCursor ==
    [][NextPageStep =>
           /\ LastDoc(result) # Null
           /\ issued' = issued + 1
           /\ ArrayGet(cursors, page) = Null =>
                  ArrayGet(cursors', page) = LastDoc(result)
           /\ ArrayGet(cursors, page) # Null => cursors' = cursors
           /\ \A k \in 0..Len(cursors) :
                  k # page => ArrayGet(cursors', k) = ArrayGet(cursors, k)
           /\ IssuedCursor = ArrayGet(cursors', page)]_vars

\* a call of runQuery is issued in this step, by the handler named by
Issues(by) == issued' = issued + 1 /\ recent'[Len(recent')].by = by

\* C13: while the held Result has no page cursor (there is no Result, or
\* the page has no rows), no step moves the page counter forward, extends
\* the cursor stack or issues the fetch of a next page: next-page navigation
\* leaves the page counter, the stack and the Result as they are.
C13_NextPageWithoutCursorIsNoOp ==
    [][LastDoc(result) = Null =>
           /\ page' <= page
           /\ Len(cursors') <= Len(cursors)
           /\ ~Issues("next")]_vars

\* page 3 of users was entered by a next-page step and has no rows and no
\* page cursor, nothing is pending, and handleNextPage can be called
C13_Witness ==
    /\ page = 3
    /\ result.type = "read"
    /\ result.rows = <<>>
    /\ LastDoc(result) = Null
    /\ fetches = <<>>
    /\ recent[Len(recent)].by = "next"
    /\ issued < FetchBudget

\* C14: previous-page navigation does nothing at page 1: no step taken at
\* page 1 lowers the page counter or issues the fetch of a previous page. At
\* page p > 1 it sets the page counter to p - 1, leaves the cursor stack as
\* it is and fetches with the cursor at index p - 2 of the stack, which is
\* the sentinel when p - 1 is 1.
C14_PrevPage ==
    [][/\ page = 1 => (page' >= 1 /\ ~Issues("prev"))
       /\ Issues("prev") =>
              /\ page > 1
              /\ page' = page - 1
              /\ cursors' = cursors
              /\ IssuedCursor = ArrayGet(cursors, page - 2)
              /\ page' = 1 => IssuedCursor = Null]_vars

\* handlePrevPage went back from page 3 to page 2 with the cursor at index 1
\* of the stack, the token of the last document of page 1
C14_Witness ==
    /\ page = 2
    /\ Len(cursors) = 3
    /\ recent # <<>>
    /\ recent[Len(recent)] = Called("prev", "u2")
    /\ cursors[2] = "u2"

\* the last call of runQuery was issued by handleNextPage, and the call
\* before it fetched the page that step left, for the statement the editor
\* still holds
AfterNextPage ==
    /\ Len(recent) >= 2
    /\ recent[Len(recent)].by = "next"
    /\ active # Null

\* C15: within one query, a previous-page step taken right after a
\* next-page step fetches with the cursor that was used to fetch the page the
\* next-page step left.
C15_RoundTrip ==
    [][(AfterNextPage /\ Issues("prev")) =>
           IssuedCursor = recent[Len(recent) - 1].cursor]_vars

\* the cursor that fetches page n of a collection, and the documents of the
\* page: the sentinel for page 1, else the token of the last document of
\* page n - 1 (a token of no document past the end)
RECURSIVE CursorOfPage(_, _)
CursorOfPage(col, n) ==
    IF n = 1 THEN Null
    ELSE IF ListPage(col, CursorOfPage(col, n - 1)) = <<>> THEN "none"
    ELSE ListPage(col, CursorOfPage(col, n - 1))[
             Len(ListPage(col, CursorOfPage(col, n - 1)))].id

\* the Results page n of a statement can be, r being runQuery up to its
\* first await: the error it throws, else the read Result of the page or the
\* error Result of a listing the store rejects
PagesOf(r, n) ==
    IF r.step.err.thrown THEN {ErrorResult(r.step.err)}
    ELSE {PageResult(r.locals.collection,
                     ListPage(r.locals.collection,
                              CursorOfPage(r.locals.collection, n)))}
             \cup {ErrorResult(Error("getDocs", m)) : m \in FailureMessages}

\* C16: commands issued before earlier ones resolve do not corrupt the
\* cursor stack or the Result. Once every fetch has resolved (and no cell
\* was edited and no row inserted), the stack holds the sentinel at index 0
\* and, at every index n below the page counter, the page cursor returned
\* with page n of the active query, and the held Result is the page of the
\* active query that the page counter names.
C16_OverlapDoesNotCorrupt ==
    (fetches = <<>> /\ active # Null /\ edits = 0) =>
        /\ ArrayGet(cursors, 0) = Null
        /\ \A n \in 1..(page - 1) :
               /\ ArrayGet(cursors, n) # Null
               /\ ArrayGet(cursors, n)
                      = CursorOfPage(runQuery(active, db).locals.collection, n + 1)
        /\ result \in PagesOf(runQuery(active, db), page)

\* handleCellUpdate issues its remote update in this step
CellEdited ==
    /\ Len(writes') = Len(writes) + 1
    /\ writes'[Len(writes')].op = "update"

\* row after is row before with field set to value and nothing else changed
SameButField(before, after, field, value) ==
    /\ HasKey(after, field)
    /\ ObjectGet(after, field) = value
    /\ \A k \in 1..Len(before) :
           before[k].key # field =>
               /\ HasKey(after, before[k].key)
               /\ ObjectGet(after, before[k].key) = before[k].val
    /\ \A k \in 1..Len(after) : after[k].key # field => HasKey(before, after[k].key)

\* rows after are rows before with the field rewritten in the rows of docId
RewrittenIn(before, after, docId, field, value) ==
    /\ Len(after) = Len(before)
    /\ \A i \in 1..Len(before) :
           IF ObjectGet(before[i], "id") = docId
           THEN SameButField(before[i], after[i], field, value)
           ELSE after[i] = before[i]

\* the remote update of a cell edit settles, or moves on, in this step
UpdateSettles ==
    \E i \in 1..Len(writes) :
        /\ writes[i].op = "update"
        /\ writes' # writes
        /\ \/ writes' = Remove(writes, i)
           \/ writes' = [writes EXCEPT ![i].pc = "getDoc"]

\* C17: a cell edit (documentId, field, newValue) rewrites the field, in the
\* step that issues the remote update, in exactly the rows of the held
\* Result whose id is documentId; the other rows, the order and number of
\* rows, the columns and the rest of the Result stay as they are; and no
\* step in which the remote update succeeds or fails changes the Result.
C17_CellEditRewritesMatchingRows ==
    [][/\ CellEdited =>
              /\ RewrittenIn(result.rows, result'.rows,
                             writes'[Len(writes')].docId,
                             writes'[Len(writes')].data[1].key,
                             writes'[Len(writes')].data[1].val)
              /\ [result' EXCEPT !.rows = result.rows] = result
              /\ \E i \in 1..Len(result.rows) :
                     ObjectGet(result.rows[i], "id") = writes'[Len(writes')].docId
       /\ UpdateSettles => result' = result]_vars

\* the age of u2 on page 1 of users, a field the row did not have, was set
\* to the number 7: the row of u1 before it is as the store listed it, and
\* the remote update is still pending
C17_Witness ==
    /\ result.type = "read"
    /\ Len(result.rows) = 2
    /\ result.rows[1] = DocToRow(Stored("users")[1])
    /\ ObjectGet(result.rows[2], "id") = "u2"
    /\ HasKey(result.rows[2], "age")
    /\ ObjectGet(result.rows[2], "age") = Js("number", "7")
    /\ Len(writes) = 1
    /\ writes[1].op = "update"

\* the remote write of a cell edit or of a row insert settles in this step:
\* its call is no longer pending
WriteSettled == Len(writes') < Len(writes)

\* C18: every cell edit and every row insert whose remote write settles
\* appends exactly one entry to the query history in that step, with status
\* success if the remote call succeeded and status error if it failed.
C18_WriteLoggedOnce ==
    [][WriteSettled =>
           /\ Len(history') = Len(history) + 1
           /\ SubSeq(history', 1, Len(history)) = history
           /\ history'[Len(history')].status \in {"success", "error"}
           /\ result' # result => history'[Len(history')].status = "success"]_vars

\* the edit widget is shown in json mode with a text JSON.parse rejects
MalformedJson == WidgetShown /\ editType = "json" /\ ~JsonParse(editValue).ok

StackReset == cursors' = <<Null>> /\ page' = 1

\* every entry of the stack stays where it is and as it is in this step, and
\* at most one entry is added: at the index of the page entered, by a
\* next-page step that found no entry there
StackGrows ==
    /\ \A k \in 0..(Len(cursors) - 1) : ArrayGet(cursors', k) = ArrayGet(cursors, k)
    /\ \/ cursors' = cursors
       \/ /\ NextPageStep
          /\ ArrayGet(cursors, page) = Null
          /\ cursors' = ArraySet(cursors, page, ArrayGet(cursors', page))
          /\ ArrayGet(cursors', page) # Null

\* C20: the cursor stack always holds the sentinel at index 0. A step that
\* submits a query resets the stack to [sentinel] and the page counter to 1;
\* every other step but a logout, which resets them too, leaves every entry
\* of the stack in place and adds at most the entry of a page entered for
\* the first time.
C20_StackOnlyGrows ==
    /\ [](ArrayGet(cursors, 0) = Null)
    /\ [][/\ Issues("run") => StackReset
          /\ StackReset \/ StackGrows
          /\ (StackReset /\ ~StackGrows) =>
                 (Issues("run") \/ (result' = NoResult /\ history' = <<>>))]_vars

\* a query submitted at page 3 of an earlier one: the stack, which held the
\* cursors of two pages, is [sentinel] again and the page counter 1
C20_Witness ==
    /\ submits = 2
    /\ page = 1
    /\ cursors = <<Null>>
    /\ Len(recent) = 3
    /\ recent[1] = Called("next", "u2")
    /\ recent[2] = Called("next", "u3")
    /\ recent[3] = Called("run", Null)

\* C21: the cursor stack is reset to [sentinel], and the page counter to 1,
\* in every step that changes the query string, so that a next-page fetch is
\* issued for a statement that parses and reads the collection of the held
\* Result, whose page cursor it passes.
C21_StackResetWhenQueryChanges ==
    [][/\ query' # query => StackReset
       /\ Issues("next") =>
              /\ ~runQuery(query, db).step.err.thrown
              /\ runQuery(query, db).locals.collection = result.collectionName]_vars

\* the columns of the first page of a collection
FirstPageColumns(col) == PageResult(col, ListPage(col, Null)).columns

\* C22: every page a next-page or previous-page fetch resolves to is a read
\* Result whose columns are those of the first page of the query.
C22_ColumnsStableAcrossPages ==
    [][\A i \in 1..Len(fetches) :
           (/\ fetches' = Remove(fetches, i)
            /\ fetches[i].by \in {"next", "prev"}
            /\ result'.type = "read") =>
               result'.columns = FirstPageColumns(fetches[i].col)]_vars

\* the Results a pending call of runQuery can resolve to
Responses(f) ==
    {PageResult(f.col, ListPage(f.col, f.cursor))}
        \cup {ErrorResult(Error("getDocs", m)) : m \in FailureMessages}

\* C23: no fetch is cancelled. A pending fetch leaves the pending ones only
\* by resolving, whatever was started after it, and the step in which it
\* resolves replaces the held Result with its response, whether or not it
\* is the fetch issued last: the Result held once all have resolved is the
\* response of the fetch that resolved last.
C23_NoCancellation ==
    [][/\ Len(fetches') >= Len(fetches) =>
              SubSeq(fetches', 1, Len(fetches)) = fetches
       /\ Len(fetches') < Len(fetches) =>
              /\ \E i \in 1..Len(fetches) : fetches' = Remove(fetches, i)
              /\ \A i \in 1..Len(fetches) :
                     fetches' = Remove(fetches, i) =>
                         result' \in Responses(fetches[i])]_vars

\* a previous-page fetch was issued after a next-page fetch and resolved
\* before it: all have resolved, and the held Result is page 2, the response
\* of the next-page fetch, not page 1
C23_Witness ==
    /\ fetches = <<>>
    /\ Len(recent) = 3
    /\ recent[2] = Called("next", "u2")
    /\ recent[3] = Called("prev", Null)
    /\ page = 1
    /\ result.type = "read"
    /\ LastDoc(result) = "u3"
    /\ history = <<HistoryItem("SELECT * FROM users", "success")>>

HistoryExtended ==
    /\ Len(history') >= Len(history)
    /\ SubSeq(history', 1, Len(history)) = history

\* C25 as stated: the query history is append-only. In every step the
\* previous history is a prefix of the new history, so no entry is ever
\* removed, reordered or modified.
C25_HistoryAppendOnly == [][HistoryExtended]_vars

\* C25 as amended: in every step that is not a logout the previous history is
\* a prefix of the new history and at most one entry is appended; the one
\* step that removes entries is the logout, which empties the history
\* together with the Result, the page counter and the cursor stack and
\* leaves what is pending as it is.
C25_HistoryAppendOnlyUntilLogout ==
    [][\/ /\ HistoryExtended
          /\ Len(history') <= Len(history) + 1
       \/ /\ history' = <<>>
          /\ result' = NoResult
          /\ StackReset
          /\ fetches' = fetches
          /\ writes' = writes]_vars

\* the run of the query was logged first and the cell edit made on its page
\* second
C25_Witness ==
    /\ Len(history) = 2
    /\ history[1] = HistoryItem("SELECT * FROM users", "success")
    /\ history[2].query
           = "UPDATE users SET name = Ann WHERE id = 'u1' (Inline Edit)"

\* the WHERE value of the SELECT is a token that the coercion leaves a
\* string: neither true or false nor the text of a number
StringToken ==
    /\ pc # "idle"
    /\ ComparatorSelect
    /\ db
    /\ calls[1].where.value \notin {"true", "false"}
    /\ ~IsNumericToken(calls[1].where.value)

\* one layer of quotes taken off a token wrapped in a matching pair, the
\* token itself otherwise
OneLayerOff(token) == IF QuotedId(token) THEN InnerOf(token) ELSE token

\* C26: quote stripping in the coercion of a literal removes exactly one
\* layer. A token wrapped in one matching pair of single or double quotes
\* yields the inner string with any inner quotes left intact, and a token
\* that is not wrapped in a matching pair is yielded verbatim: that string
\* is the value of the store filter.
C26_StripsOneLayer ==
    StringToken =>
        /\ sdk # <<>>
        /\ \A i \in 1..Len(sdk) :
               sdk[i].fn = "getDocs" =>
                   sdk[i].filter.value = StrVal(OneLayerOff(calls[1].where.value))

\* C27: a row created by a row insert is only ever prepended to a read
\* Result whose collectionName is the collection the row was created in: in
\* a step in which a row insert settles and the held Result changes, the
\* Result held was of type read and of the collection of the insert, so no
\* write-typed or error-typed Result gains a row.
C27_RowJoinsItsOwnReadResult ==
    [][\A i \in 1..Len(writes) :
           (/\ writes[i].op = "insert"
            /\ writes' = Remove(writes, i)
            /\ result' # result) =>
               /\ result.type = "read"
               /\ result.collectionName = writes[i].col]_vars

\* the second call of runQuery of the session was made by the next-page
\* handler from page 1 of the first, and both have settled
SecondWasNextPage ==
    /\ issued = 2
    /\ Len(recent) = 2
    /\ recent[1] = Called("run", Null)
    /\ recent[2].by = "next"
    /\ fetches = <<>>
    /\ history # <<>>

\* C28: the page counter names the page that the held Result shows. When a
\* next-page fetch started on page 1, with the stack [sentinel], resolves to
\* an error Result, the page counter is 1 and the stack is [sentinel] as
\* before the navigation was started.
C28_FailedNavigationKeepsPage ==
    (SecondWasNextPage /\ result.type = "error") =>
        /\ page = 1
        /\ cursors = <<Null>>

\* C29: the loading flag is true in every state in which at least one fetch
\* started by run-query, next-page or previous-page is outstanding, and false
\* when none is.
C29_LoadingIffFetchOutstanding == loading <=> fetches # <<>>

\* C30: after logout the session state stays cleared until a new command is
\* issued after the next login. While the login screen is shown the held
\* Result is null, the history is empty, the page is 1 and the cursor stack
\* is [sentinel], even when a query, cell edit or row insert that was in
\* flight at the moment of logout resolves in the meantime.
C30_ClearedWhileLoggedOut ==
    appState = "LOGIN" =>
        /\ result = NoResult
        /\ history = <<>>
        /\ page = 1
        /\ cursors = <<Null>>
====
